---- MODULE Spec2Model ----
(***************************************************************************)
(* The person-priority scoring and ranking engine of src/lib/personSort.ts *)
(* (calculatePersonScore, sortPersons).                                    *)
(*                                                                         *)
(* Time is counted in clock units, UnitsPerDay of them to a day.  Every    *)
(* read of the wall clock (new Date(), isPast) is a separate read: the     *)
(* clock may advance between two reads of one call.                        *)
(*                                                                         *)
(* A score is kept as an integer number of 1/100000: the factor            *)
(* 1 + log2(n + 1) * 0.2 is tabulated to five decimals and the product is  *)
(* exact.  For n up to 4 and sums up to 8000 two scores compare as the     *)
(* floating-point products do, except that two products equal as real      *)
(* numbers (90 * 1.4 and 105 * 1.2) are equal here and may differ in the   *)
(* last bit in floating point.                                             *)
(*                                                                         *)
(* isPast and differenceInDays are those of date-fns: date < Date.now(),   *)
(* and the number of full days between two dates, truncated towards zero.  *)
(*                                                                         *)
(* The second part is the handlers of POST /api/tasks and POST /api/people *)
(* (netlify/functions/api.js, and the same code in server/index.js) on the *)
(* tables persons and tasks.  A handler runs from one await to the next in *)
(* one step; the handlers of concurrent requests interleave at the awaits. *)
(*                                                                         *)
(* The third part is the click on a task's status button in TaskList       *)
(* (handleStatusClick) with the onEditTask callback App hands to TaskList. *)
(* A click runs up to its await in one step and from the answer of the     *)
(* backend to its end in another; React renders between two clicks.        *)
(***************************************************************************)
EXTENDS Integers, Sequences, FiniteSets, TLC

VARIABLES
    persons,    \* the Person[] array handed to the engine
    tasks,      \* the Task[] array handed to the engine
    clock,      \* the wall clock (Date.now()), in clock units
    call        \* the last call of the engine: its arguments and its outcome
                \* (of a calculatePersonScore call also the open tasks, by
                \* their numbers, that it took as overdue and that it weighted,
                \* and the three terms it added up)

VARIABLES
    dbPersons,  \* the rows of table persons, in the order of their insertion
    dbTasks,    \* the rows of table tasks, in the order of their insertion
    handlers    \* the handler of each request: where it is, its locals, its
                \* response, and the number of rows it has written

VARIABLES
    filteredTasks,  \* the tasks prop of TaskList
    updatingTaskId, \* TaskList's state updatingTaskId
    error,          \* TaskList's state error
    editingTask,    \* App's state editingTask
    isTaskFormOpen, \* App's state isTaskFormOpen
    clicks          \* each click on a status button: where its handler is,
                    \* the task it got, the outcome of the backend update,
                    \* and the arguments of its calls of onEditTask

engineVars == <<persons, tasks, clock, call>>

apiVars == <<dbPersons, dbTasks, handlers>>

uiVars ==
    <<filteredTasks, updatingTaskId, error, editingTask, isTaskFormOpen, clicks>>

vars ==
    <<persons, tasks, clock, call, dbPersons, dbTasks, handlers,
      filteredTasks, updatingTaskId, error, editingTask, isTaskFormOpen, clicks>>

(***************************************************************************)
(* Bounds of the model.                                                    *)
(***************************************************************************)
MaxPersons == 3
MaxTasks == 2
MaxClock == 1
UnitsPerDay == 2
MaxRivalTasks == 3
MaxRequests == 2
MaxEmails == 2
MaxClicks == 3
MaxListed == 2

(***************************************************************************)
(* Helpers.                                                                *)
(***************************************************************************)
\* The function f as an explicit value.
Explicit(f) == f @@ <<>>

\* Math.abs left out.
AbsOmitted(x) == x

\* Math.abs
Abs(x) == IF x < 0 THEN -x ELSE x

Min(a, b) == IF a <= b THEN a ELSE b

Max(a, b) == IF a >= b THEN a ELSE b

Includes(arr, x) == \E i \in DOMAIN arr : arr[i] = x

RECURSIVE SumSeq(_)
SumSeq(s) == IF s = <<>> THEN 0 ELSE Head(s) + SumSeq(Tail(s))

RECURSIVE MinSeq(_)
MinSeq(s) == IF Len(s) = 1 THEN s[1] ELSE Min(Head(s), MinSeq(Tail(s)))

RECURSIVE MaxSeq(_)
MaxSeq(s) == IF s = <<>> THEN 0 ELSE Max(Head(s), MaxSeq(Tail(s)))

\* All sequences over S of length at most n.
SeqsUpTo(S, n) == UNION {[1..k -> S] : k \in 0..n}

(***************************************************************************)
(* The inputs the engine is run on.                                        *)
(***************************************************************************)
Ann == [id |-> "p1", name |-> "Ann", role |-> "dev"]

Bob == [id |-> "p2", name |-> "Bob", role |-> "dev"]

Ann2 == [id |-> "p3", name |-> "Ann", role |-> "ops"]

PersonPool == {Ann, Bob, Ann2}

\* Person lists: the ids are distinct (persons.id is the primary key).
PersonLists ==
    {s \in SeqsUpTo(PersonPool, MaxPersons) :
        \A i, j \in DOMAIN s : i # j => s[i].id # s[j].id}

Priorities == {"low", "medium", "high"}

\* new Date(9999, 11, 31).getTime()
FarFuture == 1000000

\* Due dates, relative to the clock's first value 0: three days ago, now, in
\* five days.
DueDates == {-3 * UnitsPerDay, 0, 5 * UnitsPerDay}

\* "px" is the id of no person.
Assignments == {<<"p1">>, <<"p2", "px">>}

\* A task in progress and a completed one, both shared by two persons, and a
\* task due after 9999-12-31 (a due_date the task schema accepts).
SpecialTasks ==
    { [status |-> "in_progress", priority |-> "high",
       due_date |-> -3 * UnitsPerDay, assigned_person_ids |-> <<"p1", "p2">>],
      [status |-> "completed", priority |-> "high",
       due_date |-> -3 * UnitsPerDay, assigned_person_ids |-> <<"p1", "p2">>],
      [status |-> "pending", priority |-> "low",
       due_date |-> FarFuture + UnitsPerDay, assigned_person_ids |-> <<"p1">>] }

TaskPool ==
    [status : {"pending"}, priority : Priorities, due_date : DueDates,
     assigned_person_ids : Assignments]
    \cup SpecialTasks

\* The inputs of the scoring runs: two persons, and tasks of the first one
\* due 11, 10, 3 and less than one day ago, now, and in less than 2 days, in
\* 2, 3, 5, 7 and 8 days.
ScoreDueDates ==
    {-11 * UnitsPerDay, -10 * UnitsPerDay, -3 * UnitsPerDay, -1, 0,
     UnitsPerDay + 1, 2 * UnitsPerDay, 3 * UnitsPerDay, 5 * UnitsPerDay,
     7 * UnitsPerDay, 8 * UnitsPerDay}

ScoreTaskPool ==
    [status : {"pending"}, priority : Priorities, due_date : ScoreDueDates,
     assigned_person_ids : {<<"p1">>}]
    \cup
    { [status |-> "completed", priority |-> "high",
       due_date |-> -3 * UnitsPerDay, assigned_person_ids |-> <<"p1">>],
      [status |-> "in_progress", priority |-> "medium",
       due_date |-> 0, assigned_person_ids |-> <<"p2", "px">>] }

TaskLists == SeqsUpTo(TaskPool, MaxTasks)

(***************************************************************************)
(* The wall clock as one call reads it.  A call makes R reads, numbered    *)
(* from 0; ticks is the nondecreasing sequence of the reads just before    *)
(* which the clock advances by one unit.                                   *)
(***************************************************************************)
Schedules(c, R) ==
    UNION { {t \in [1..k -> 1..(R - 1)] : \A i, j \in 1..k : i <= j => t[i] <= t[j]}
            : k \in 0..(MaxClock - c) }

Reads(c, ticks, R) ==
    Explicit([k \in 0..(R - 1) |-> c + Cardinality({i \in DOMAIN ticks : ticks[i] <= k})])

(***************************************************************************)
(* date-fns.                                                               *)
(***************************************************************************)
\* isPast(date): date < Date.now()
isPast(date, nowRead) == date < nowRead

\* The difference in days rounded to the nearest day.
differenceInDaysRounded(dateLeft, dateRight) ==
    IF dateLeft >= dateRight
    THEN (2 * (dateLeft - dateRight) + UnitsPerDay) \div (2 * UnitsPerDay)
    ELSE -((2 * (dateRight - dateLeft) + UnitsPerDay) \div (2 * UnitsPerDay))

\* differenceInDays(dateLeft, dateRight): full days, truncated towards zero
differenceInDays(dateLeft, dateRight) ==
    IF dateLeft >= dateRight
    THEN (dateLeft - dateRight) \div UnitsPerDay
    ELSE -((dateRight - dateLeft) \div UnitsPerDay)

(***************************************************************************)
(* calculatePersonScore.                                                   *)
(***************************************************************************)
\* The filter without the test of the status.
getOpenTasksAnyStatus(person, allTasks) ==
    SelectSeq(allTasks, LAMBDA t : Includes(t.assigned_person_ids, person.id))

\* The filter without the test of the assignment.
getOpenTasksOfAnyPerson(person, allTasks) ==
    SelectSeq(allTasks, LAMBDA t : t.status # "completed")

\* tasks.filter(task => task.assigned_person_ids.includes(person.id) &&
\*                      task.status !== 'completed')
getOpenTasks(person, allTasks) ==
    SelectSeq(allTasks, LAMBDA t :
        Includes(t.assigned_person_ids, person.id) /\ t.status # "completed")

\* The number of clock reads of one calculatePersonScore call.
NumReads(person, allTasks) ==
    LET n == Len(getOpenTasks(person, allTasks))
    IN  IF n = 0 THEN 0 ELSE 2 * n + 1

\* Math.log2(m) in 1/100000
Log2E5(m) ==
    CASE m = 1 -> 0
      [] m = 2 -> 100000
      [] m = 3 -> 158496
      [] m = 4 -> 200000
      [] m = 5 -> 232193
      [] m = 6 -> 258496
      [] m = 7 -> 280735
      [] m = 8 -> 300000

\* The factor applied as a divisor.
ApplyMultiplierAsDivisor(score, n) ==
    ((score * 1000) \div ((100000 + Log2E5(n + 1) \div 5) \div 1000)) * 100

\* The factor with the logarithm of the number of tasks itself.
ApplyMultiplierOfCount(score, n) == score * (100000 + Log2E5(n) \div 5)

\* score * (1 + Math.log2(personTasks.length + 1) * 0.2), in 1/100000
ApplyMultiplier(score, n) == score * (100000 + Log2E5(n + 1) \div 5)

\* The weights with nothing for priority low.
priorityWeightWithoutLow(priority) ==
    CASE priority = "high" -> 50
      [] priority = "medium" -> 20
      [] priority = "low" -> 0

priorityWeight(priority) ==
    CASE priority = "high" -> 50
      [] priority = "medium" -> 20
      [] priority = "low" -> 5

\* The weights without the branch of the tasks due within a week.
dateWeightWithoutWeek(daysUntilDue) ==
    IF daysUntilDue <= 1 THEN 5
    ELSE IF daysUntilDue <= 3 THEN 3
    ELSE 1

\* The weights with < in the place of <=.
dateWeightStrict(daysUntilDue) ==
    IF daysUntilDue < 1 THEN 5
    ELSE IF daysUntilDue < 3 THEN 3
    ELSE IF daysUntilDue < 7 THEN 2
    ELSE 1

dateWeight(daysUntilDue) ==
    IF daysUntilDue <= 1 THEN 5
    ELSE IF daysUntilDue <= 3 THEN 3
    ELSE IF daysUntilDue <= 7 THEN 2
    ELSE 1

\* The test for more than one overdue task.
HasSeveralOverdue(overdueCount) == overdueCount > 1

\* if (overdueTasks.length > 0)
HasOverdue(overdueCount) == overdueCount > 0

\* rd[0] is the read of `today`, rd[i] the read of isPast for the i-th open
\* task in the overdue filter, rd[n + i] the read of isPast for it in the loop.

\* personTasks.filter(task => isPast(new Date(task.due_date))), as indices
overdueTasks(personTasks, rd) ==
    {i \in DOMAIN personTasks : isPast(personTasks[i].due_date, rd[i])}

\* The tasks that pass `if (!isPast(dueDate))` in the loop, as indices.
weightedTasks(personTasks, rd) ==
    {i \in DOMAIN personTasks :
        ~isPast(personTasks[i].due_date, rd[Len(personTasks) + i])}

\* The amount without the cap of ten days.
overdueAmountUncapped(daysOverdue) == 100 * daysOverdue

\* 100 * Math.min(daysOverdue, 10)
overdueAmount(daysOverdue) == 100 * Min(daysOverdue, 10)

\* if (overdueTasks.length > 0) { score += 1000; overdueTasks.forEach(...) }
overdueTerm(personTasks, rd) ==
    IF HasOverdue(Cardinality(overdueTasks(personTasks, rd)))
    THEN 1000 + SumSeq([i \in DOMAIN personTasks |->
            IF i \in overdueTasks(personTasks, rd)
            THEN overdueAmount(Abs(differenceInDays(personTasks[i].due_date, rd[0])))
            ELSE 0])
    ELSE 0

\* 500 added once, however many tasks of high priority there are.
highPriorityTermFlat(personTasks) ==
    IF \E i \in DOMAIN personTasks : personTasks[i].priority = "high" THEN 500 ELSE 0

\* if (highPriorityTasks.length > 0) score += 500 * highPriorityTasks.length
highPriorityTerm(personTasks) ==
    500 * Cardinality({i \in DOMAIN personTasks : personTasks[i].priority = "high"})

\* personTasks.forEach(task => { if (!isPast(dueDate)) { ...
\*     score += priorityWeight * dateWeight } })
weightedTerm(personTasks, rd) ==
    SumSeq([i \in DOMAIN personTasks |->
        IF i \in weightedTasks(personTasks, rd)
        THEN priorityWeight(personTasks[i].priority)
             * dateWeight(differenceInDays(personTasks[i].due_date, rd[0]))
        ELSE 0])

\* The three terms of the score before the factor is applied.
ScoreTerms(personTasks, rd) ==
    [overdue |-> overdueTerm(personTasks, rd),
     high |-> highPriorityTerm(personTasks),
     weighted |-> weightedTerm(personTasks, rd)]

\* The body of calculatePersonScore from `if (personTasks.length === 0)` on.
ScoreOfOpenTasks(personTasks, rd) ==
    IF Len(personTasks) = 0 THEN 0
    ELSE ApplyMultiplier(overdueTerm(personTasks, rd)
                         + highPriorityTerm(personTasks)
                         + weightedTerm(personTasks, rd), Len(personTasks))

calculatePersonScore(person, allTasks, rd) ==
    ScoreOfOpenTasks(getOpenTasks(person, allTasks), rd)

(***************************************************************************)
(* sortPersons.                                                            *)
(***************************************************************************)
SortOption == {"smart", "taskCount", "urgency", "priority", "name", "role"}

\* const priorities = { high: 2, medium: 1, low: 0 }
priorities(priority) ==
    CASE priority = "high" -> 2
      [] priority = "medium" -> 1
      [] priority = "low" -> 0

\* Math.max(...tasks.map(t => priorities[t.priority]), 0)
getHighestPriority(ts) == MaxSeq([i \in DOMAIN ts |-> priorities(ts[i].priority)])

\* new Date(Math.min(...tasks.map(t => new Date(t.due_date).getTime())))
getEarliestDueDate(ts) ==
    IF Len(ts) = 0 THEN FarFuture
    ELSE MinSeq([i \in DOMAIN ts |-> ts[i].due_date])

\* The collation order of the strings of the pool.
CollationKey(str) ==
    CASE str = "Ann" -> 1
      [] str = "Bob" -> 2
      [] str = "dev" -> 1
      [] str = "ops" -> 2

\* String.prototype.localeCompare
localeCompare(a, b) ==
    IF CollationKey(a) < CollationKey(b) THEN -1
    ELSE IF CollationKey(a) > CollationKey(b) THEN 1
    ELSE 0

\* The operands of the difference exchanged.
compareSmartAscending(scoreA, scoreB) == scoreA - scoreB

\* case 'smart': return scoreB - scoreA
compareSmart(scoreA, scoreB) == scoreB - scoreA

\* The operands of the difference exchanged.
compareTaskCountAscending(aCount, bCount) == aCount - bCount

\* case 'taskCount': return bCount - aCount
compareTaskCount(aCount, bCount) == bCount - aCount

\* case 'urgency': return aDate.getTime() - bDate.getTime()
compareUrgency(aDate, bDate) == aDate - bDate

\* The comparison by the highest priority alone, without the due dates.
comparePriorityOnly(a, b, allTasks) ==
    getHighestPriority(getOpenTasks(b, allTasks))
    - getHighestPriority(getOpenTasks(a, allTasks))

\* case 'priority'
comparePriority(a, b, allTasks) ==
    LET aPriority == getHighestPriority(getOpenTasks(a, allTasks))
        bPriority == getHighestPriority(getOpenTasks(b, allTasks))
    IN  IF bPriority # aPriority
        THEN bPriority - aPriority
        ELSE getEarliestDueDate(getOpenTasks(a, allTasks))
             - getEarliestDueDate(getOpenTasks(b, allTasks))

\* The receiver and the argument of localeCompare exchanged.
compareNameDescending(a, b) == localeCompare(b.name, a.name)

\* case 'name': return a.name.localeCompare(b.name)
compareName(a, b) == localeCompare(a.name, b.name)

\* case 'role': return a.role.localeCompare(b.role)
compareRole(a, b) == localeCompare(a.role, b.role)

\* default: return 0
compareDefault(a, b) == 0

\* A comparator that computes the two scores anew, by the clock of its own.
compareRecomputing(a, b, allTasks, sortBy, personScores) ==
    CASE sortBy = "smart" ->
            compareSmart(
                calculatePersonScore(a, allTasks, Reads(clock, <<>>, NumReads(a, allTasks))),
                calculatePersonScore(b, allTasks, Reads(clock, <<>>, NumReads(b, allTasks))))
      [] sortBy = "taskCount" ->
            compareTaskCount(Len(getOpenTasks(a, allTasks)), Len(getOpenTasks(b, allTasks)))
      [] sortBy = "urgency" ->
            compareUrgency(getEarliestDueDate(getOpenTasks(a, allTasks)),
                           getEarliestDueDate(getOpenTasks(b, allTasks)))
      [] sortBy = "priority" -> comparePriority(a, b, allTasks)
      [] sortBy = "name" -> compareName(a, b)
      [] sortBy = "role" -> compareRole(a, b)
      [] OTHER -> compareDefault(a, b)

\* The comparator handed to Array.prototype.sort.
compare(a, b, allTasks, sortBy, personScores) ==
    CASE sortBy = "smart" -> compareSmart(personScores[a.id], personScores[b.id])
      [] sortBy = "taskCount" ->
            compareTaskCount(Len(getOpenTasks(a, allTasks)), Len(getOpenTasks(b, allTasks)))
      [] sortBy = "urgency" ->
            compareUrgency(getEarliestDueDate(getOpenTasks(a, allTasks)),
                           getEarliestDueDate(getOpenTasks(b, allTasks)))
      [] sortBy = "priority" -> comparePriority(a, b, allTasks)
      [] sortBy = "name" -> compareName(a, b)
      [] sortBy = "role" -> compareRole(a, b)
      [] OTHER -> compareDefault(a, b)

\* An insertion that puts x before the elements it compares equal to.
InsertAtUnstable(sorted, x, c) ==
    LET less == {k \in DOMAIN sorted : c[sorted[k]][x] < 0}
        pos == IF less = {} THEN 0
               ELSE CHOOSE k \in less : \A m \in less : m <= k
    IN  SubSeq(sorted, 1, pos) \o <<x>> \o SubSeq(sorted, pos + 1, Len(sorted))

\* Array.prototype.sort is stable: x goes behind the last element that does
\* not compare greater than x.  c[i][j] is comparefn(arr[i], arr[j]).
InsertAt(sorted, x, c) ==
    LET notGreater == {k \in DOMAIN sorted : c[sorted[k]][x] <= 0}
        pos == IF notGreater = {} THEN 0
               ELSE CHOOSE k \in notGreater : \A m \in notGreater : m <= k
    IN  SubSeq(sorted, 1, pos) \o <<x>> \o SubSeq(sorted, pos + 1, Len(sorted))

RECURSIVE SortIndices(_, _, _)
SortIndices(sorted, next, c) ==
    IF next > Cardinality(DOMAIN c) THEN sorted
    ELSE SortIndices(InsertAt(sorted, next, c), next + 1, c)

\* The elements taken one place too early: the first twice, the last never.
PermuteShifted(arr, order) == [k \in DOMAIN arr |-> arr[order[Max(k - 1, 1)]]]

Permute(arr, order) == [k \in DOMAIN arr |-> arr[order[k]]]

ArraySort(arr, c) == Permute(arr, SortIndices(<<>>, 1, c))

\* The read of the clock at which the score of persons[j] starts.
RECURSIVE ReadBase(_, _, _)
ReadBase(ps, allTasks, j) ==
    IF j = 1 THEN 0
    ELSE ReadBase(ps, allTasks, j - 1) + NumReads(ps[j - 1], allTasks)

TotalReads(ps, allTasks) == ReadBase(ps, allTasks, Len(ps) + 1)

\* new Map(persons.map(person => [person.id, calculatePersonScore(person, tasks)]))
\* a later entry of the same id replaces an earlier one.
PersonScores(ps, allTasks, rd) ==
    [id \in {ps[j].id : j \in DOMAIN ps} |->
        LET j == CHOOSE j \in DOMAIN ps :
                    /\ ps[j].id = id
                    /\ \A k \in DOMAIN ps : ps[k].id = id => k <= j
            base == ReadBase(ps, allTasks, j)
        IN  calculatePersonScore(ps[j], allTasks,
                [k \in 0..(NumReads(ps[j], allTasks) - 1) |-> rd[base + k]])]

\* persons.sort(...): the array passed in is sorted in place.
InputAfterSortInPlace(ps, sorted) == sorted

\* [...persons].sort(...) sorts a copy: the array passed in is left as it was.
InputAfterSort(ps, sorted) == ps

\* How a call with this sortBy ends: the switch has a default branch, it
\* never throws.
Completion(sortBy) == "return"

\* c[i][j] is the comparator's value on (ps[i], ps[j]).
CompareMatrix(ps, allTasks, sortBy, personScores) ==
    Explicit([i \in DOMAIN ps |-> Explicit([j \in DOMAIN ps |->
        compare(ps[i], ps[j], allTasks, sortBy, personScores)])])

\* return [...persons].sort((a, b) => ...)
SortWith(ps, allTasks, sortBy, personScores) ==
    ArraySort(ps, CompareMatrix(ps, allTasks, sortBy, personScores))

\* A call that fails on an empty array of persons.
OutcomeFailingOnEmpty(ps, personScores, sorted, sortBy) ==
    [personScores |-> personScores,
     ret |-> sorted,
     persons |-> ps,
     completion |-> IF ps = <<>> THEN "throw" ELSE "return"]

Outcome(ps, personScores, sorted, sortBy) ==
    [personScores |-> personScores,
     ret |-> sorted,
     persons |-> InputAfterSort(ps, sorted),
     completion |-> Completion(sortBy)]

SortAndReturn(ps, allTasks, sortBy, personScores) ==
    Outcome(ps, personScores, SortWith(ps, allTasks, sortBy, personScores), sortBy)

sortPersons(ps, allTasks, sortBy, rd) ==
    SortAndReturn(ps, allTasks, sortBy, Explicit(PersonScores(ps, allTasks, rd)))

(***************************************************************************)
(* POST /api/tasks.                                                        *)
(***************************************************************************)
Requests == 1..MaxRequests

Emails == {"ann@oei.io", "bob@oei.io"}

\* email.split('@')[0]
LocalPart(email) ==
    CASE email = "ann@oei.io" -> "ann"
      [] email = "bob@oei.io" -> "bob"

\* A request body the schema accepts: status and description are left out.
ValidBody(emails) ==
    [title |-> "Report", priority |-> "high", due_date |-> "2026-01-01T00:00:00Z",
     assigned_person_emails |-> emails]

ValidBodies == {ValidBody(emails) : emails \in SeqsUpTo(Emails, MaxEmails)}

\* Bodies the schema rejects: an empty title, a status outside the enum, a
\* due_date that is no datetime, a string that is no email, no emails at all.
InvalidBodies ==
    { [title |-> "", priority |-> "high", due_date |-> "2026-01-01T00:00:00Z",
       assigned_person_emails |-> <<"ann@oei.io">>],
      [title |-> "Report", status |-> "done", due_date |-> "2026-01-01T00:00:00Z",
       assigned_person_emails |-> <<"ann@oei.io">>],
      [title |-> "Report", due_date |-> "tomorrow",
       assigned_person_emails |-> <<"ann@oei.io">>],
      [title |-> "Report", due_date |-> "2026-01-01T00:00:00Z",
       assigned_person_emails |-> <<"bob@oei.io", "bob">>],
      [title |-> "Report", due_date |-> "2026-01-01T00:00:00Z"] }

RequestBodies == ValidBodies \cup InvalidBodies

Undefined == "undefined"

Has(body, field) == field \in DOMAIN body

\* z.string().email()
IsEmail(str) == str \in Emails

\* z.string().datetime()
IsDatetime(str) == str = "2026-01-01T00:00:00Z"

\* TaskSchema.parse(req.body) does not throw a ZodError.
TaskSchemaAccepts(body) ==
    /\ Has(body, "title") /\ body.title # ""
    /\ Has(body, "status") => body.status \in {"pending", "in_progress", "completed"}
    /\ Has(body, "priority") => body.priority \in Priorities
    /\ Has(body, "due_date") /\ IsDatetime(body.due_date)
    /\ Has(body, "assigned_person_emails")
    /\ \A k \in DOMAIN body.assigned_person_emails :
          IsEmail(body.assigned_person_emails[k])

\* The value of TaskSchema.parse(req.body): the defaults are filled in.
TaskSchemaParse(body) ==
    [title |-> body.title,
     description |-> IF Has(body, "description") THEN body.description ELSE Undefined,
     status |-> IF Has(body, "status") THEN body.status ELSE "pending",
     priority |-> IF Has(body, "priority") THEN body.priority ELSE "medium",
     due_date |-> body.due_date,
     assigned_person_emails |-> body.assigned_person_emails]

\* A person that is in the table before any request.
ExistingAnn ==
    [id |-> 1, email |-> "ann@oei.io", name |-> "Ann", role |-> "dev",
     department |-> "R&D"]

\* data of .from('persons').select('id').eq('email', email).single(): the id
\* of the one row of that email, null (0) if there is no row or several.
Null == 0

SelectSingle(table, email) ==
    LET hits == {k \in DOMAIN table : table[k].email = email}
    IN  IF Cardinality(hits) = 1 THEN table[CHOOSE k \in hits : TRUE].id ELSE Null

\* A table persons without the constraint.
ViolatesUniqueNever(table, email) == FALSE

\* email text UNIQUE NOT NULL
ViolatesUnique(table, email) == \E k \in DOMAIN table : table[k].email = email

\* The row of .insert({email, name: email.split('@')[0], role: 'Auto-created',
\* department: 'Imported'}); id is gen_random_uuid(), a fresh one.
NewPerson(table, email) ==
    [id |-> Len(table) + 1, email |-> email, name |-> LocalPart(email),
     role |-> "Auto-created", department |-> "Imported"]

\* The row of .from('tasks').insert({...})
NewTask(table, taskData, personIds) ==
    [id |-> Len(table) + 1,
     title |-> taskData.title,
     description |-> taskData.description,
     status |-> taskData.status,
     priority |-> taskData.priority,
     due_date |-> taskData.due_date,
     assigned_person_ids |-> personIds]

\* The id put in front of the array.
Unshift(personIds, id) == <<id>> \o personIds

\* personIds.push(person.id)
Push(personIds, id) == Append(personIds, id)

Idle == [pc |-> "idle"]

\* res.status(...).json(...)
Respond(h, status, json) ==
    [pc |-> "done", route |-> h.route, body |-> h.body, writes |-> h.writes,
     res |-> [status |-> status, json |-> json]]

\* throw error, caught by catch (error) { console.error('API Error:', error);
\* res.status(500).json({ error: 'Internal server error' }) }
Throw(h, thrown) ==
    [pc |-> "done", route |-> h.route, body |-> h.body, writes |-> h.writes,
     res |-> [status |-> 500, json |-> "Internal server error"],
     logged |-> thrown]

\* The error of an insert into persons: of the UNIQUE constraint if the
\* email is in the table, of the connection or the database otherwise.
InsertError(table, email) ==
    IF ViolatesUnique(table, email) THEN "unique_violation" ELSE "unavailable"

\* The handler at the head of the loop over taskData.assigned_person_emails.
LoopHead(h) ==
    IF h.i <= Len(h.taskData.assigned_person_emails)
    THEN [h EXCEPT !.pc = "select"]
    ELSE [h EXCEPT !.pc = "insertTask"]

\* personIds.push(person.id), and on to the next email.
NextEmail(h, id) ==
    LoopHead([h EXCEPT !.personIds = Push(@, id), !.i = @ + 1])

\* The request arrives: TaskSchema.parse(req.body), and 400 on a ZodError.
ReceiveTask(r) ==
    /\ handlers[r].pc = "idle"
    /\ \E body \in RequestBodies :
         handlers' = [handlers EXCEPT ![r] =
            IF TaskSchemaAccepts(body)
            THEN LoopHead([pc |-> "parsed", route |-> "/api/tasks", body |-> body,
                           writes |-> 0, taskData |-> TaskSchemaParse(body),
                           personIds |-> <<>>, i |-> 1])
            ELSE Respond([route |-> "/api/tasks", body |-> body, writes |-> 0],
                         400, "ZodError")]
    /\ UNCHANGED <<dbPersons, dbTasks>>
    /\ UNCHANGED <<engineVars, uiVars>>

\* await supabase.from('persons').select('id').eq('email', email).single():
\* the error of the query is not looked at, data is null when it fails.
SelectPerson(r) ==
    /\ handlers[r].pc = "select"
    /\ \E failed \in BOOLEAN :
         LET h == handlers[r]
             person == IF failed THEN Null
                       ELSE SelectSingle(dbPersons, h.taskData.assigned_person_emails[h.i])
         IN  handlers' = [handlers EXCEPT ![r] =
                IF person # Null THEN NextEmail(h, person)
                ELSE [h EXCEPT !.pc = "insert"]]
    /\ UNCHANGED <<dbPersons, dbTasks>>
    /\ UNCHANGED <<engineVars, uiVars>>

\* await supabase.from('persons').insert({...}).select('id').single();
\* if (createError) throw createError, which ends in 500.
CreatePerson(r) ==
    /\ handlers[r].pc = "insert"
    /\ LET h == handlers[r]
           email == h.taskData.assigned_person_emails[h.i]
       IN  \/ /\ ~ViolatesUnique(dbPersons, email)
              /\ dbPersons' = Append(dbPersons, NewPerson(dbPersons, email))
              /\ handlers' = [handlers EXCEPT ![r] =
                    NextEmail([h EXCEPT !.writes = @ + 1], Len(dbPersons) + 1)]
           \/ /\ handlers' = [handlers EXCEPT ![r] =
                    Throw(h, InsertError(dbPersons, email))]
              /\ UNCHANGED dbPersons
    /\ UNCHANGED dbTasks
    /\ UNCHANGED <<engineVars, uiVars>>

\* await supabase.from('tasks').insert({...}).select().single();
\* if (error) throw error; res.status(201).json(task)
CreateTask(r) ==
    /\ handlers[r].pc = "insertTask"
    /\ LET h == handlers[r]
       IN  \/ /\ dbTasks' = Append(dbTasks, NewTask(dbTasks, h.taskData, h.personIds))
              /\ handlers' = [handlers EXCEPT ![r] =
                    Respond([h EXCEPT !.writes = @ + 1], 201,
                            NewTask(dbTasks, h.taskData, h.personIds))]
           \/ /\ handlers' = [handlers EXCEPT ![r] =
                    Throw(h, "unavailable")]
              /\ UNCHANGED dbTasks
    /\ UNCHANGED dbPersons
    /\ UNCHANGED <<engineVars, uiVars>>

(***************************************************************************)
(* POST /api/people.                                                       *)
(***************************************************************************)
\* Request bodies PersonSchema accepts: ann, ann with another name and role,
\* bob.
ValidPersonBodies ==
    { [name |-> "Ann", role |-> "dev", department |-> "R&D", email |-> "ann@oei.io"],
      [name |-> "Ann B.", role |-> "lead", department |-> "R&D", email |-> "ann@oei.io"],
      [name |-> "Bob", role |-> "dev", department |-> "R&D", email |-> "bob@oei.io"] }

\* Bodies it rejects: a string that is no email, an empty name.
InvalidPersonBodies ==
    { [name |-> "Bob", role |-> "dev", department |-> "R&D", email |-> "bob"],
      [name |-> "", role |-> "dev", department |-> "R&D", email |-> "bob@oei.io"] }

PersonBodies == ValidPersonBodies \cup InvalidPersonBodies

\* PersonSchema.parse(req.body) does not throw a ZodError.
PersonSchemaAccepts(body) ==
    /\ Has(body, "name") /\ body.name # ""
    /\ Has(body, "role") /\ body.role # ""
    /\ Has(body, "department") /\ body.department # ""
    /\ Has(body, "email") /\ IsEmail(body.email)

\* The row of .from('persons').insert(personData)
InsertedPerson(table, personData) ==
    [id |-> Len(table) + 1, email |-> personData.email, name |-> personData.name,
     role |-> personData.role, department |-> personData.department]

\* The row of this id after .update(personData).eq('id', id)
UpdatedPerson(id, personData) ==
    [id |-> id, email |-> personData.email, name |-> personData.name,
     role |-> personData.role, department |-> personData.department]

\* The update would give the email of another row to the row of this id.
UpdateViolatesUnique(table, id, email) ==
    \E k \in DOMAIN table : table[k].id # id /\ table[k].email = email

\* The request arrives: PersonSchema.parse(req.body), and 400 on a ZodError.
ReceivePerson(r) ==
    /\ handlers[r].pc = "idle"
    /\ \E body \in PersonBodies :
         handlers' = [handlers EXCEPT ![r] =
            IF PersonSchemaAccepts(body)
            THEN [pc |-> "selectExisting", route |-> "/api/people", body |-> body,
                  writes |-> 0, personData |-> body]
            ELSE Respond([route |-> "/api/people", body |-> body, writes |-> 0],
                         400, "ZodError")]
    /\ UNCHANGED <<dbPersons, dbTasks>>
    /\ UNCHANGED <<engineVars, uiVars>>

\* const { data: existing } = await supabase.from('persons').select('id')
\*     .eq('email', personData.email).single(); if (existing) ... else ...
SelectExisting(r) ==
    /\ handlers[r].pc = "selectExisting"
    /\ \E failed \in BOOLEAN :
         LET h == handlers[r]
             existing == IF failed THEN Null
                         ELSE SelectSingle(dbPersons, h.personData.email)
         IN  handlers' = [handlers EXCEPT ![r] =
                IF existing # Null
                THEN [pc |-> "update", route |-> h.route, body |-> h.body,
                      writes |-> h.writes, personData |-> h.personData,
                      existing |-> existing]
                ELSE [h EXCEPT !.pc = "insertPerson"]]
    /\ UNCHANGED <<dbPersons, dbTasks>>
    /\ UNCHANGED <<engineVars, uiVars>>

\* await supabase.from('persons').update(personData).eq('id', existing.id)
\*     .select().single(); if (error) throw error; res.json(person)
UpdatePerson(r) ==
    /\ handlers[r].pc = "update"
    /\ LET h == handlers[r]
       IN  \/ /\ ~UpdateViolatesUnique(dbPersons, h.existing, h.personData.email)
              /\ dbPersons' = [k \in DOMAIN dbPersons |->
                    IF dbPersons[k].id = h.existing
                    THEN UpdatedPerson(h.existing, h.personData)
                    ELSE dbPersons[k]]
              /\ handlers' = [handlers EXCEPT ![r] =
                    Respond([h EXCEPT !.writes = @ + 1], 200,
                            UpdatedPerson(h.existing, h.personData))]
           \/ /\ handlers' = [handlers EXCEPT ![r] = Throw(h, "unavailable")]
              /\ UNCHANGED dbPersons
    /\ UNCHANGED dbTasks
    /\ UNCHANGED <<engineVars, uiVars>>

\* await supabase.from('persons').insert(personData).select().single();
\* if (error) throw error; res.status(201).json(person)
InsertPerson(r) ==
    /\ handlers[r].pc = "insertPerson"
    /\ LET h == handlers[r]
       IN  \/ /\ ~ViolatesUnique(dbPersons, h.personData.email)
              /\ dbPersons' = Append(dbPersons, InsertedPerson(dbPersons, h.personData))
              /\ handlers' = [handlers EXCEPT ![r] =
                    Respond([h EXCEPT !.writes = @ + 1], 201,
                            InsertedPerson(dbPersons, h.personData))]
           \/ /\ handlers' = [handlers EXCEPT ![r] =
                    Throw(h, InsertError(dbPersons, h.personData.email))]
              /\ UNCHANGED dbPersons
    /\ UNCHANGED dbTasks
    /\ UNCHANGED <<engineVars, uiVars>>

(***************************************************************************)
(* TaskList: the click on the status button of a task.                     *)
(***************************************************************************)
Clicks == 1..MaxClicks

Statuses == {"pending", "in_progress", "completed"}

statusConfig ==
    [pending     |-> [label |-> "To Do",       next |-> "in_progress"],
     in_progress |-> [label |-> "In Progress", next |-> "completed"],
     completed   |-> [label |-> "Completed",   next |-> "pending"]]

\* The tasks the list shows, and their rows in table tasks: up to MaxListed
\* tasks, of any status.
ListedTask(k, status) ==
    [id |-> k, title |-> IF k = 1 THEN "Pay rent" ELSE "Book venue",
     status |-> status]

ListedTasks ==
    UNION {{[k \in 1..n |-> ListedTask(k, st[k])] : st \in [1..n -> Statuses]} :
           n \in 1..MaxListed}

\* if (updatingTaskId): null is falsy, the id of a task is not.
Truthy(id) == id # Null

\* { ...task, status: nextStatus }
WithStatus(task, nextStatus) == [task EXCEPT !.status = nextStatus]

\* .from('tasks').update({ status: nextStatus }).eq('id', task.id)
UpdateStatus(table, id, nextStatus) ==
    [k \in DOMAIN table |->
        IF table[k].id = id THEN [table[k] EXCEPT !.status = nextStatus]
        ELSE table[k]]

\* The handler that dropped its click.
Ignored(task) == [pc |-> "ignored", task |-> task, calls |-> <<>>]

\* The handler at its await, after the optimistic onEditTask.
Awaiting(task, nextStatus) ==
    [pc |-> "await", task |-> task, nextStatus |-> nextStatus,
     calls |-> <<WithStatus(task, nextStatus)>>]

\* A handler that leaves the optimistic update as it is after an error.
FinishedWithoutRevert(c, outcome) ==
    [pc |-> "done", task |-> c.task, nextStatus |-> c.nextStatus,
     outcome |-> outcome, calls |-> c.calls]

\* The handler at its end; after an error it has called onEditTask(task).
Finished(c, outcome) ==
    [pc |-> "done", task |-> c.task, nextStatus |-> c.nextStatus,
     outcome |-> outcome,
     calls |-> IF outcome = "ok" THEN c.calls ELSE Append(c.calls, c.task)]

\* The error state of useState<string | null>(null) when it is null.
NoError == "null"

\* setError(...) of the two error paths.
ErrorMessage(outcome) ==
    IF outcome = "error" THEN "Failed to update task status. Please try again."
    ELSE "Network error. Please check your connection."

\* handleStatusClick(e, task), up to its await.  onEditTask is App's:
\* setEditingTask(task); setIsTaskFormOpen(true).
Click(c) ==
    /\ clicks[c].pc = "idle"
    /\ \E i \in DOMAIN filteredTasks :
       \E task \in {filteredTasks[i]} :
       \E nextStatus \in {statusConfig[task.status].next} :
         IF Truthy(updatingTaskId)
         THEN /\ clicks' = [clicks EXCEPT ![c] = Ignored(task)]
              /\ UNCHANGED <<updatingTaskId, error, editingTask, isTaskFormOpen>>
         ELSE /\ error' = NoError
              /\ updatingTaskId' = task.id
              /\ editingTask' = WithStatus(task, nextStatus)
              /\ isTaskFormOpen' = TRUE
              /\ clicks' = [clicks EXCEPT ![c] = Awaiting(task, nextStatus)]
    /\ UNCHANGED <<filteredTasks, dbTasks>>
    /\ UNCHANGED <<engineVars, dbPersons, handlers>>

\* The update is done and the handler runs to its end: no error.
UpdateOk(c) ==
    /\ clicks[c].pc = "await"
    /\ dbTasks' = UpdateStatus(dbTasks, clicks[c].task.id, clicks[c].nextStatus)
    /\ clicks' = [clicks EXCEPT ![c] = Finished(@, "ok")]
    /\ updatingTaskId' = Null
    /\ UNCHANGED <<filteredTasks, error, editingTask, isTaskFormOpen>>
    /\ UNCHANGED <<engineVars, dbPersons, handlers>>

\* The update answers { error }, or the await throws (and then the row may
\* be updated all the same): setError, onEditTask(task), and the finally.
UpdateFails(c) ==
    /\ clicks[c].pc = "await"
    /\ \E outcome \in {"error", "throw"} :
         /\ clicks' = [clicks EXCEPT ![c] = Finished(@, outcome)]
         /\ error' = ErrorMessage(outcome)
         /\ \/ UNCHANGED dbTasks
            \/ /\ outcome = "throw"
               /\ dbTasks' = UpdateStatus(dbTasks, clicks[c].task.id,
                                          clicks[c].nextStatus)
    /\ editingTask' = clicks[c].task
    /\ isTaskFormOpen' = TRUE
    /\ updatingTaskId' = Null
    /\ UNCHANGED filteredTasks
    /\ UNCHANGED <<engineVars, dbPersons, handlers>>

\* onClose of the TaskForm: setIsTaskFormOpen(false); setEditingTask(undefined)
CloseTaskForm ==
    /\ isTaskFormOpen
    /\ isTaskFormOpen' = FALSE
    /\ editingTask' = Undefined
    /\ UNCHANGED <<filteredTasks, updatingTaskId, error, clicks>>
    /\ UNCHANGED <<engineVars, apiVars>>

(***************************************************************************)
(* State machine: a behaviour is one call of the engine on one input.       *)
(***************************************************************************)
NoCall == [op |-> "none"]

\* No request has arrived and the tables are empty.
NoRequests ==
    /\ dbPersons = <<>>
    /\ dbTasks = <<>>
    /\ handlers = [r \in Requests |-> Idle]

\* No task is listed and nothing is clicked.
NoClicks ==
    /\ filteredTasks = <<>>
    /\ updatingTaskId = Null
    /\ error = NoError
    /\ editingTask = Undefined
    /\ isTaskFormOpen = FALSE
    /\ clicks = [c \in Clicks |-> Idle]

Init ==
    /\ persons \in PersonLists
    /\ tasks \in TaskLists
    /\ clock = 0
    /\ call = NoCall
    /\ NoRequests
    /\ NoClicks

\* calculatePersonScore(person, tasks)
Score ==
    /\ call = NoCall
    /\ \E i \in DOMAIN persons :
       \E ticks \in Schedules(clock, NumReads(persons[i], tasks)) :
       \E rd \in {Reads(clock, ticks, NumReads(persons[i], tasks))} :
          /\ call' = [op |-> "calculatePersonScore",
                      person |-> persons[i],
                      now |-> clock,
                      steady |-> (ticks = <<>>),
                      overdue |-> overdueTasks(getOpenTasks(persons[i], tasks), rd),
                      weighted |-> weightedTasks(getOpenTasks(persons[i], tasks), rd),
                      terms |-> ScoreTerms(getOpenTasks(persons[i], tasks), rd),
                      ret |-> calculatePersonScore(persons[i], tasks, rd)]
          /\ clock' = clock + Len(ticks)
          /\ UNCHANGED <<persons, tasks>>
          /\ UNCHANGED <<apiVars, uiVars>>

\* sortPersons(persons, tasks, sortBy)
Rank ==
    /\ call = NoCall
    /\ \E ticks \in Schedules(clock, TotalReads(persons, tasks)) :
       \E rd \in {Reads(clock, ticks, TotalReads(persons, tasks))} :
       \E personScores \in {Explicit(PersonScores(persons, tasks, rd))} :
       \E sortBy \in SortOption \cup {"bogus"} :
       \E out \in {SortAndReturn(persons, tasks, sortBy, personScores)} :
          /\ call' = [op |-> "sortPersons",
                      persons |-> persons,
                      sortBy |-> sortBy,
                      now |-> clock,
                      steady |-> (ticks = <<>>),
                      personScores |-> out.personScores,
                      completion |-> out.completion,
                      ret |-> out.ret]
          /\ persons' = out.persons
          /\ clock' = clock + Len(ticks)
          /\ UNCHANGED tasks
          /\ UNCHANGED <<apiVars, uiVars>>

Next == Score \/ Rank

Spec == Init /\ [][Next]_vars

\* The scoring runs.
InitScore ==
    /\ persons = <<Ann, Bob>>
    /\ tasks \in SeqsUpTo(ScoreTaskPool, MaxTasks)
    /\ clock = 0
    /\ call = NoCall
    /\ NoRequests
    /\ NoClicks

SpecScore == InitScore /\ [][Next]_vars

\* The runs on two persons with up to three tasks between them, overdue by
\* three days or due now, of priority low or high.
RivalTaskPool ==
    [status : {"pending"}, priority : {"low", "high"},
     due_date : {-3 * UnitsPerDay, 0},
     assigned_person_ids : {<<"p1">>, <<"p2", "px">>}]

InitRivals ==
    /\ persons \in {<<Ann, Bob>>, <<Bob, Ann>>}
    /\ tasks \in SeqsUpTo(RivalTaskPool, MaxRivalTasks)
    /\ clock = 0
    /\ call = NoCall
    /\ NoRequests
    /\ NoClicks

SpecRivals == InitRivals /\ [][Next]_vars

\* The requests: the table persons is empty or holds one person.
InitApi ==
    /\ persons = <<>>
    /\ tasks = <<>>
    /\ clock = 0
    /\ call = NoCall
    /\ dbPersons \in {<<>>, <<ExistingAnn>>}
    /\ dbTasks = <<>>
    /\ handlers = [r \in Requests |-> Idle]
    /\ NoClicks

NextApi ==
    \E r \in Requests :
        \/ ReceiveTask(r)
        \/ SelectPerson(r)
        \/ CreatePerson(r)
        \/ CreateTask(r)
        \/ ReceivePerson(r)
        \/ SelectExisting(r)
        \/ UpdatePerson(r)
        \/ InsertPerson(r)

SpecApi == InitApi /\ [][NextApi]_vars

\* The clicks: the list shows the rows of table tasks.
InitUi ==
    /\ persons = <<>>
    /\ tasks = <<>>
    /\ clock = 0
    /\ call = NoCall
    /\ dbPersons = <<>>
    /\ handlers = [r \in Requests |-> Idle]
    /\ filteredTasks \in ListedTasks
    /\ dbTasks = filteredTasks
    /\ updatingTaskId = Null
    /\ error = NoError
    /\ editingTask = Undefined
    /\ isTaskFormOpen = FALSE
    /\ clicks = [c \in Clicks |-> Idle]

NextUi ==
    \/ \E c \in Clicks : Click(c) \/ UpdateOk(c) \/ UpdateFails(c)
    \/ CloseTaskForm

SpecUi == InitUi /\ [][NextUi]_vars

(***************************************************************************)
(* The vocabulary of the properties, stated without the engine's own       *)
(* definitions.                                                            *)
(***************************************************************************)
Range(seq) == {seq[i] : i \in DOMAIN seq}

\* t is assigned to p and not completed.
IsOpenFor(t, p) == t.status # "completed" /\ p.id \in Range(t.assigned_person_ids)

OpenIndices(p, T) == {i \in DOMAIN T : IsOpenFor(T[i], p)}

HasOpenTask(p, T) == OpenIndices(p, T) # {}

OpenCount(p, T) == Cardinality(OpenIndices(p, T))

\* The earliest due date among the open tasks of p, which has one.
EarliestOpenDue(p, T) ==
    CHOOSE d \in {T[i].due_date : i \in OpenIndices(p, T)} :
        \A i \in OpenIndices(p, T) : d <= T[i].due_date

\* The position of the person of this id in a list of persons.
PositionOf(id, ps) == CHOOSE k \in DOMAIN ps : ps[k].id = id

\* The clock as a call reads it when it does not advance during the call.
SteadyReads(now, R) == Reads(now, <<>>, R)

\* computeScore(p, T, now) and rankPersons(ps, T, strategy, now): the engine
\* run with every read of the clock returning now.
ScoreAt(p, T, now) ==
    calculatePersonScore(p, T, SteadyReads(now, NumReads(p, T)))

RankAt(ps, T, strategy, now) ==
    sortPersons(ps, T, strategy, SteadyReads(now, TotalReads(ps, T)))

IsScoreCall == call.op = "calculatePersonScore"

IsRankCall == call.op = "sortPersons"

\* T with task t put in at position k + 1.
InsertTask(T, k, t) == SubSeq(T, 1, k) \o <<t>> \o SubSeq(T, k + 1, Len(T))

(***************************************************************************)
(* C1.  A person with no task that is both assigned to the person and not  *)
(* completed has score exactly 0.                                          *)
(***************************************************************************)
C1_NoOpenTaskScoresZero ==
    /\ (IsScoreCall /\ ~HasOpenTask(call.person, tasks)) => call.ret = 0
    /\ IsRankCall =>
         \A i \in DOMAIN call.persons :
            ~HasOpenTask(call.persons[i], tasks)
                => call.personScores[call.persons[i].id] = 0

\* A person scored 0 whose only tasks are completed, next to an open task of
\* somebody else.
C1_Witness ==
    /\ IsScoreCall
    /\ ~HasOpenTask(call.person, tasks)
    /\ \E i \in DOMAIN tasks :
         /\ tasks[i].status = "completed"
         /\ call.person.id \in Range(tasks[i].assigned_person_ids)
    /\ \E i \in DOMAIN tasks : tasks[i].status # "completed"
    /\ call.ret = 0

(***************************************************************************)
(* C2.  A call of sortPersons with a strategy outside the six of           *)
(* SortOption ends in an error and returns no ranking.                     *)
(***************************************************************************)
C2_UnknownStrategyFails ==
    (IsRankCall /\ call.sortBy \notin SortOption) => call.completion = "throw"

(***************************************************************************)
(* C3.  Every score is greater than or equal to 0, also when the clock     *)
(* advances during the call.                                               *)
(***************************************************************************)
C3_ScoreNonNegative ==
    /\ IsScoreCall => call.ret >= 0
    /\ IsRankCall => \A id \in DOMAIN call.personScores : call.personScores[id] >= 0

\* A positive score of a person with a task overdue by eleven days.
C3_Witness ==
    /\ IsScoreCall
    /\ \E i \in OpenIndices(call.person, tasks) :
         tasks[i].due_date <= call.now - 11 * UnitsPerDay
    /\ call.ret > 0

(***************************************************************************)
(* C4.  A call of sortPersons leaves the persons array and the tasks array *)
(* as they were.                                                           *)
(***************************************************************************)
C4_InputsUnchanged ==
    [][call'.op = "sortPersons" => (persons' = persons /\ tasks' = tasks)]_vars

\* A call that returned another order than the one of its input, which is
\* still what it was.
C4_Witness ==
    /\ IsRankCall
    /\ call.ret # call.persons
    /\ persons = call.persons

(***************************************************************************)
(* C5.  With strategy smart the output is ordered by score, descending:    *)
(* by the scores computed in the call and, when the clock stands still     *)
(* during the call, by the score of each person at that time.              *)
(***************************************************************************)
C5_SmartDescending ==
    (IsRankCall /\ call.sortBy = "smart") =>
        \A i, j \in DOMAIN call.ret :
            i < j =>
                /\ call.personScores[call.ret[i].id] >= call.personScores[call.ret[j].id]
                /\ call.steady =>
                     ScoreAt(call.ret[i], tasks, call.now) >= ScoreAt(call.ret[j], tasks, call.now)

\* Three persons of three different scores, returned in another order than
\* the input's.
C5_Witness ==
    /\ IsRankCall
    /\ call.sortBy = "smart"
    /\ Len(call.ret) = 3
    /\ call.ret # call.persons
    /\ call.personScores[call.ret[1].id] > call.personScores[call.ret[2].id]
    /\ call.personScores[call.ret[2].id] > call.personScores[call.ret[3].id]

(***************************************************************************)
(* C6.  sortPersons is stable: two persons whose sort keys are equal under *)
(* the strategy keep their relative order.                                 *)
(***************************************************************************)
HighestOpenPriority(p, T) ==
    IF \E i \in OpenIndices(p, T) : T[i].priority = "high" THEN 2
    ELSE IF \E i \in OpenIndices(p, T) : T[i].priority = "medium" THEN 1
    ELSE 0

DueKey(p, T) == IF HasOpenTask(p, T) THEN EarliestOpenDue(p, T) ELSE FarFuture

SortKey(p, strategy) ==
    CASE strategy = "smart" -> call.personScores[p.id]
      [] strategy = "taskCount" -> OpenCount(p, tasks)
      [] strategy = "urgency" -> DueKey(p, tasks)
      [] strategy = "priority" -> <<HighestOpenPriority(p, tasks), DueKey(p, tasks)>>
      [] strategy = "name" -> CollationKey(p.name)
      [] strategy = "role" -> CollationKey(p.role)

C6_Stable ==
    (IsRankCall /\ call.sortBy \in SortOption) =>
        \A i, j \in DOMAIN call.persons :
            (i < j /\ SortKey(call.persons[i], call.sortBy)
                        = SortKey(call.persons[j], call.sortBy))
            => PositionOf(call.persons[i].id, call.ret)
                 < PositionOf(call.persons[j].id, call.ret)

\* Two persons of equal keys with a person of a smaller key between them in
\* the input: the sort moves that person and keeps the two in order.
C6_Witness ==
    /\ IsRankCall
    /\ call.sortBy \in SortOption
    /\ Len(call.persons) = 3
    /\ call.ret # call.persons
    /\ SortKey(call.persons[1], call.sortBy) = SortKey(call.persons[3], call.sortBy)
    /\ SortKey(call.persons[1], call.sortBy) # SortKey(call.persons[2], call.sortBy)

(***************************************************************************)
(* C7.  For a fixed reference time, one more open task that is assigned to *)
(* the person and overdue does not make the person's score smaller.        *)
(***************************************************************************)
OverdueAdditions(p, now) ==
    {t \in [status : {"pending", "in_progress"}, priority : Priorities,
            due_date : ScoreDueDates, assigned_person_ids : {<<p.id>>}] :
        t.due_date < now}

C7_OverdueTaskMonotone ==
    (IsScoreCall /\ call.steady) =>
        \A t \in OverdueAdditions(call.person, call.now) :
        \A k \in 0..Len(tasks) :
            ScoreAt(call.person, InsertTask(tasks, k, t), call.now) >= call.ret

\* A person with an overdue task and one that is not: a further overdue task
\* raises the score.
C7_Witness ==
    /\ IsScoreCall
    /\ call.steady
    /\ \E i \in OpenIndices(call.person, tasks) : tasks[i].due_date < call.now
    /\ \E i \in OpenIndices(call.person, tasks) : tasks[i].due_date >= call.now
    /\ \E t \in OverdueAdditions(call.person, call.now) :
         ScoreAt(call.person, Append(tasks, t), call.now) > call.ret

(***************************************************************************)
(* C8.  The result of a call is a function of its arguments and of one     *)
(* reference time: there is a time between the call's first and last read  *)
(* of the clock for which the call returned what the engine returns when   *)
(* every read gives that time.                                             *)
(***************************************************************************)
C8_Deterministic ==
    /\ IsScoreCall =>
         \E now \in call.now..clock : call.ret = ScoreAt(call.person, tasks, now)
    /\ IsRankCall =>
         \E now \in call.now..clock :
            /\ call.ret = RankAt(call.persons, tasks, call.sortBy, now).ret
            /\ call.personScores
                 = RankAt(call.persons, tasks, call.sortBy, now).personScores

(***************************************************************************)
(* C9.  With strategy taskCount the output is ordered by the number of     *)
(* open tasks, descending, and it is the same for a task collection that   *)
(* differs in the priority or the due date of a task.                      *)
(***************************************************************************)
\* The task lists that differ from T in the priority and due date of one task.
Revalued(T) ==
    {[T EXCEPT ![i] = [@ EXCEPT !.priority = pr, !.due_date = d]] :
        i \in DOMAIN T, pr \in Priorities, d \in {t.due_date : t \in TaskPool}}

C9_TaskCountOnly ==
    (IsRankCall /\ call.sortBy = "taskCount") =>
        /\ \A i, j \in DOMAIN call.ret :
              i < j => OpenCount(call.ret[i], tasks) >= OpenCount(call.ret[j], tasks)
        /\ \A T \in Revalued(tasks) :
              RankAt(call.persons, T, "taskCount", call.now).ret = call.ret

\* Persons of different numbers of open tasks, of different priorities and
\* due dates, returned in another order than the input's.
C9_Witness ==
    /\ IsRankCall
    /\ call.sortBy = "taskCount"
    /\ call.ret # call.persons
    /\ Len(tasks) = 2
    /\ tasks[1].priority # tasks[2].priority
    /\ tasks[1].due_date # tasks[2].due_date
    /\ OpenCount(call.ret[1], tasks) = 2

(***************************************************************************)
(* C10.  With strategy urgency the output is ordered by the earliest due   *)
(* date among each person's open tasks, ascending, and every person with   *)
(* no open task comes after every person who has one.                      *)
(***************************************************************************)
C10_UrgencyOrder ==
    (IsRankCall /\ call.sortBy = "urgency") =>
        \A i, j \in DOMAIN call.ret :
            i < j =>
                /\ (HasOpenTask(call.ret[i], tasks) /\ HasOpenTask(call.ret[j], tasks))
                    => EarliestOpenDue(call.ret[i], tasks) <= EarliestOpenDue(call.ret[j], tasks)
                /\ HasOpenTask(call.ret[j], tasks) => HasOpenTask(call.ret[i], tasks)

(***************************************************************************)
(* C11.  With strategy priority, a person p that comes before a person q   *)
(* in the output has a greater highest priority among its open tasks       *)
(* (high 2, medium 1, low 0, no open task 0), or the same one and an       *)
(* earliest open due date not later than q's, the date of a person with no *)
(* open task being the sentinel 9999-12-31.                                *)
(***************************************************************************)
C11_PriorityOrder ==
    (IsRankCall /\ call.sortBy = "priority") =>
        \A i, j \in DOMAIN call.ret :
            i < j =>
                \/ HighestOpenPriority(call.ret[i], tasks)
                     > HighestOpenPriority(call.ret[j], tasks)
                \/ /\ HighestOpenPriority(call.ret[i], tasks)
                        = HighestOpenPriority(call.ret[j], tasks)
                   /\ DueKey(call.ret[i], tasks) <= DueKey(call.ret[j], tasks)

\* Two persons with open tasks of the same highest priority and different
\* earliest due dates, which the call has exchanged.
C11_Witness ==
    /\ IsRankCall
    /\ call.sortBy = "priority"
    /\ \E i, j \in DOMAIN call.ret :
         /\ i < j
         /\ HasOpenTask(call.ret[i], tasks)
         /\ HasOpenTask(call.ret[j], tasks)
         /\ HighestOpenPriority(call.ret[i], tasks)
              = HighestOpenPriority(call.ret[j], tasks)
         /\ EarliestOpenDue(call.ret[i], tasks) < EarliestOpenDue(call.ret[j], tasks)
         /\ PositionOf(call.ret[i].id, call.persons)
              > PositionOf(call.ret[j].id, call.persons)

(***************************************************************************)
(* C12.  With strategy name the output is in ascending order of the names, *)
(* with strategy role in ascending order of the roles, whatever the tasks  *)
(* are.                                                                    *)
(***************************************************************************)
C12_NameRoleAscending ==
    /\ (IsRankCall /\ call.sortBy = "name") =>
         \A i, j \in DOMAIN call.ret :
            i < j => CollationKey(call.ret[i].name) <= CollationKey(call.ret[j].name)
    /\ (IsRankCall /\ call.sortBy = "role") =>
         \A i, j \in DOMAIN call.ret :
            i < j => CollationKey(call.ret[i].role) <= CollationKey(call.ret[j].role)

\* Three persons given with Bob first and returned with Bob last, the one
\* with open tasks.
C12_Witness ==
    /\ IsRankCall
    /\ call.sortBy = "name"
    /\ Len(call.ret) = 3
    /\ call.persons[1].name = "Bob"
    /\ call.ret[3].name = "Bob"
    /\ OpenCount(call.ret[3], tasks) = 2
    /\ ~HasOpenTask(call.ret[1], tasks)

(***************************************************************************)
(* C13.  The strategies name and role are idempotent: ranking the output   *)
(* of a call again, with the same tasks and strategy, returns that output. *)
(***************************************************************************)
C13_NameRoleIdempotent ==
    (IsRankCall /\ call.sortBy \in {"name", "role"}) =>
        RankAt(call.ret, tasks, call.sortBy, clock).ret = call.ret

\* A call that has reordered three persons, two of them of the same key.
C13_Witness ==
    /\ IsRankCall
    /\ call.sortBy \in {"name", "role"}
    /\ Len(call.persons) = 3
    /\ call.ret # call.persons
    /\ SortKey(call.ret[1], call.sortBy) = SortKey(call.ret[2], call.sortBy)
    /\ SortKey(call.ret[2], call.sortBy) # SortKey(call.ret[3], call.sortBy)

(***************************************************************************)
(* C14.  The scenario of a person a whose only open task has priority high *)
(* and was due three whole days before now, and a person b whose only open *)
(* task has priority low and is due five days after now: a scores 2160,    *)
(* b scores 6 and strategy smart puts a before b.  (Scores in 1/100000.)   *)
(***************************************************************************)
\* The only open task of p has this priority and is due this number of whole
\* days after now (before now, if negative).
OnlyOpenTask(p, T, priority, days, now) ==
    \E i \in DOMAIN T :
        /\ OpenIndices(p, T) = {i}
        /\ T[i].priority = priority
        /\ IF days >= 0
           THEN /\ T[i].due_date >= now + days * UnitsPerDay
                /\ T[i].due_date < now + (days + 1) * UnitsPerDay
           ELSE /\ T[i].due_date <= now + days * UnitsPerDay
                /\ T[i].due_date > now + (days - 1) * UnitsPerDay

ScenarioPairs ==
    {pair \in Range(call.persons) \X Range(call.persons) :
        /\ OnlyOpenTask(pair[1], tasks, "high", -3, call.now)
        /\ OnlyOpenTask(pair[2], tasks, "low", 5, call.now)}

C14_Scenario ==
    (IsRankCall /\ call.sortBy = "smart" /\ call.steady) =>
        \A pair \in ScenarioPairs :
            /\ call.personScores[pair[1].id] = 216000000
            /\ call.personScores[pair[2].id] = 600000
            /\ PositionOf(pair[1].id, call.ret) < PositionOf(pair[2].id, call.ret)

(***************************************************************************)
(* C14, amended.  In that scenario a scores 2160, b scores 12 (a task due  *)
(* in five days has the date weight 2: 5 * 2 * 1.2) and strategy smart     *)
(* puts a before b.                                                        *)
(***************************************************************************)
C14_ScenarioAmended ==
    (IsRankCall /\ call.sortBy = "smart" /\ call.steady) =>
        \A pair \in ScenarioPairs :
            /\ call.personScores[pair[1].id] = 216000000
            /\ call.personScores[pair[2].id] = 1200000
            /\ PositionOf(pair[1].id, call.ret) < PositionOf(pair[2].id, call.ret)

\* The scenario on the list [b, a]: the call has put a first.
C14_Witness ==
    /\ IsRankCall
    /\ call.sortBy = "smart"
    /\ call.steady
    /\ Len(call.persons) = 2
    /\ <<call.persons[2], call.persons[1]>> \in ScenarioPairs
    /\ call.ret = <<call.persons[2], call.persons[1]>>

(***************************************************************************)
(* C15.  On an empty list of persons and any list of tasks, a call with    *)
(* any of the six strategies returns the empty list and does not fail.     *)
(***************************************************************************)
C15_EmptyPersons ==
    (IsRankCall /\ call.persons = <<>> /\ call.sortBy \in SortOption) =>
        /\ call.ret = <<>>
        /\ call.completion = "return"

\* A call on no persons and two tasks, one of them open.
C15_Witness ==
    /\ IsRankCall
    /\ call.persons = <<>>
    /\ call.sortBy \in SortOption
    /\ Len(tasks) = 2
    /\ \E i \in DOMAIN tasks : tasks[i].status # "completed"
    /\ call.ret = <<>>
    /\ call.completion = "return"

(***************************************************************************)
(* C16.  A person's score depends on that person's own open tasks only.    *)
(* One more task that is completed, or not assigned to the person (also if *)
(* assigned to ids of no person), leaves the person's score as it is; a    *)
(* task like that for every person of the list leaves the ranking as it    *)
(* is, under every strategy; and the call does not fail.                   *)
(***************************************************************************)
\* Tasks of the highest priority, due before every task of the model.
AddedTasks ==
    [status : {"pending", "completed"}, priority : {"high"},
     due_date : {-4 * UnitsPerDay},
     assigned_person_ids : {<<"p1">>, <<"p2", "px">>, <<"p3">>, <<"px">>}]

ForeignTo(t, p) == t.status = "completed" \/ p.id \notin Range(t.assigned_person_ids)

Factor(n) == 100000 + Log2E5(n + 1) \div 5

\* The open tasks of p are two, due at now or less than a day after it, one
\* of priority medium and one of priority low.
TwoTasksDueToday(p, T, now) ==
    \E i, j \in DOMAIN T :
        /\ OpenIndices(p, T) = {i, j}
        /\ T[i].priority = "medium"
        /\ T[j].priority = "low"
        /\ \A k \in {i, j} : T[k].due_date >= now /\ T[k].due_date < now + UnitsPerDay

C17_Multiplier ==
    IsScoreCall =>
        /\ HasOpenTask(call.person, tasks) =>
              call.ret % Factor(OpenCount(call.person, tasks)) = 0
        /\ (call.steady /\ TwoTasksDueToday(call.person, tasks, call.now)) =>
              call.ret = (20 * 5 + 5 * 5) * Factor(2)

\* The scenario's call.
C17_Witness ==
    /\ IsScoreCall
    /\ call.steady
    /\ TwoTasksDueToday(call.person, tasks, call.now)
    /\ call.ret = 16462375

\* A score of two open tasks, one of them overdue: the factor is that of two.
C17_WitnessOverdue ==
    /\ IsScoreCall
    /\ OpenCount(call.person, tasks) = 2
    /\ \E i \in OpenIndices(call.person, tasks) : tasks[i].due_date < call.now
    /\ \E i \in OpenIndices(call.person, tasks) : tasks[i].due_date > clock
    /\ call.ret > 0
    /\ call.ret % Factor(2) = 0
    /\ call.ret % Factor(1) # 0

(***************************************************************************)
(* C19.  In one evaluation of a score every open task of the person counts *)
(* in exactly one of the overdue term and the term of the weights, also    *)
(* when the clock advances between the reads of the evaluation.            *)
(***************************************************************************)
C19_Partition ==
    IsScoreCall =>
        \A i \in 1..OpenCount(call.person, tasks) :
            (i \in call.overdue) # (i \in call.weighted)

\* No open task counts in both terms.
C19_NeverInBoth ==
    IsScoreCall => call.overdue \cap call.weighted = {}

\* When the clock stands still during the call the two terms partition the
\* open tasks.
C19_PartitionWhenSteady ==
    (IsScoreCall /\ call.steady) =>
        \A i \in 1..OpenCount(call.person, tasks) :
            (i \in call.overdue) # (i \in call.weighted)

(***************************************************************************)
(* C20.  For one task list and one reference time, a person with an        *)
(* overdue open task has a greater score than every person with no overdue *)
(* open task, and strategy smart puts the former before the latter.        *)
(***************************************************************************)
HasOverdueOpenTask(p, T, now) == \E i \in OpenIndices(p, T) : T[i].due_date < now

\* p has an overdue open task, q has none: p's score is the greater one and
\* strategy smart has put p before q.
Dominates(p, q) ==
    /\ call.personScores[p.id] > call.personScores[q.id]
    /\ call.sortBy = "smart" =>
          PositionOf(p.id, call.ret) < PositionOf(q.id, call.ret)

C20_OverdueDominates ==
    (IsRankCall /\ call.steady) =>
        \A p, q \in Range(call.persons) :
            (/\ HasOverdueOpenTask(p, tasks, call.now)
             /\ ~HasOverdueOpenTask(q, tasks, call.now))
            => Dominates(p, q)

(***************************************************************************)
(* C20, amended.  For one task list and one reference time, a person with  *)
(* an overdue open task has a greater score than every person with no      *)
(* overdue open task and at most one open task, and strategy smart puts    *)
(* the former before the latter.                                           *)
(***************************************************************************)
C20_OverdueDominatesOneTask ==
    (IsRankCall /\ call.steady) =>
        \A p, q \in Range(call.persons) :
            (/\ HasOverdueOpenTask(p, tasks, call.now)
             /\ ~HasOverdueOpenTask(q, tasks, call.now)
             /\ OpenCount(q, tasks) <= 1)
            => Dominates(p, q)

\* A person with two open tasks of priority low, one of them overdue, given
\* after a person whose only open task is of priority high and due now, and
\* returned before that person.
C20_Witness ==
    /\ IsRankCall
    /\ call.steady
    /\ call.sortBy = "smart"
    /\ Len(call.persons) = 2
    /\ HasOverdueOpenTask(call.persons[2], tasks, call.now)
    /\ HighestOpenPriority(call.persons[2], tasks) = 0
    /\ OpenCount(call.persons[2], tasks) = 2
    /\ OpenCount(call.persons[1], tasks) = 1
    /\ HighestOpenPriority(call.persons[1], tasks) = 2
    /\ EarliestOpenDue(call.persons[1], tasks) = call.now
    /\ Len(tasks) = 3
    /\ call.ret = <<call.persons[2], call.persons[1]>>

(***************************************************************************)
(* C18.  When POST /api/tasks answers 201, for every email of              *)
(* assigned_person_emails a person of that email is in table persons, and  *)
(* the task stored has as assigned_person_ids the ids of those persons,    *)
(* one per email, in the order of the request.  A body the schema rejects  *)
(* is answered 400 and nothing has been written for it.                    *)
(***************************************************************************)
Answered(r, status) == handlers[r].pc = "done" /\ handlers[r].res.status = status

IsTaskRequest(r) == handlers[r].pc # "idle" /\ handlers[r].route = "/api/tasks"

C18_TaskCreatedWithPeople ==
    \A r \in {q \in Requests : IsTaskRequest(q)} :
        /\ Answered(r, 201) =>
             \E t \in Range(dbTasks) :
                /\ t = handlers[r].res.json
                /\ DOMAIN t.assigned_person_ids
                     = DOMAIN handlers[r].body.assigned_person_emails
                /\ \A k \in DOMAIN t.assigned_person_ids :
                     \E row \in Range(dbPersons) :
                        /\ row.email = handlers[r].body.assigned_person_emails[k]
                        /\ row.id = t.assigned_person_ids[k]
        /\ (handlers[r].pc # "idle" /\ handlers[r].body \in InvalidBodies) =>
             /\ Answered(r, 400)
             /\ handlers[r].writes = 0
        /\ Answered(r, 400) => handlers[r].writes = 0

\* A request for bob and ann, in this order, answered 201: bob has been
\* inserted behind ann, who was in the table; another request has been
\* answered 400.
C18_Witness ==
    \E r, q \in {q \in Requests : IsTaskRequest(q)} :
        /\ Answered(r, 201)
        /\ handlers[r].body.assigned_person_emails = <<"bob@oei.io", "ann@oei.io">>
        /\ handlers[r].res.json.assigned_person_ids = <<2, 1>>
        /\ handlers[r].writes = 2
        /\ dbPersons[1] = ExistingAnn
        /\ Len(dbPersons) = 2
        /\ dbPersons[2].email = "bob@oei.io"
        /\ Answered(q, 400)

(***************************************************************************)
(* C21.  Before the factor is applied, the overdue term of a score is 1000 *)
(* plus, for every overdue open task of the person, 100 times the whole    *)
(* days it is overdue, at most 10: the 1000 is added once, and a task      *)
(* overdue by 10 whole days or more adds 1000.                             *)
(***************************************************************************)
\* The whole days from the earlier to the later of two times.
WholeDays(from, to) == (to - from) \div UnitsPerDay

OverdueIndices(p, T, now) == {i \in OpenIndices(p, T) : T[i].due_date < now}

RECURSIVE SumOver(_, _)
SumOver(S, f) ==
    IF S = {} THEN 0
    ELSE LET x == CHOOSE x \in S : TRUE IN f[x] + SumOver(S \ {x}, f)

CappedDays(T, now) ==
    [i \in DOMAIN T |->
        IF WholeDays(T[i].due_date, now) >= 10 THEN 10 ELSE WholeDays(T[i].due_date, now)]

C21_OverdueTerm ==
    (IsScoreCall /\ call.steady) =>
        call.terms.overdue =
            IF OverdueIndices(call.person, tasks, call.now) = {} THEN 0
            ELSE 1000 + 100 * SumOver(OverdueIndices(call.person, tasks, call.now),
                                      CappedDays(tasks, call.now))

\* Two overdue tasks, one overdue by 11 days and one by 3 days: 1000 once,
\* 1000 for the first and 300 for the second.
C21_Witness ==
    /\ IsScoreCall
    /\ call.steady
    /\ Cardinality(OverdueIndices(call.person, tasks, call.now)) = 2
    /\ \E i \in OverdueIndices(call.person, tasks, call.now) :
         WholeDays(tasks[i].due_date, call.now) = 11
    /\ \E i \in OverdueIndices(call.person, tasks, call.now) :
         WholeDays(tasks[i].due_date, call.now) = 3
    /\ call.terms.overdue = 2300

(***************************************************************************)
(* C22.  500 is added for every open task of priority high, overdue or     *)
(* not: raising the priority of one overdue open task from low or medium   *)
(* to high raises the total before the factor by exactly 500.              *)
(***************************************************************************)
\* The total before the factor, every read of the clock returning now.
TotalAt(p, T, now) ==
    LET terms == ScoreTerms(getOpenTasks(p, T), SteadyReads(now, NumReads(p, T)))
    IN  terms.overdue + terms.high + terms.weighted

C22_HighPriorityBonus ==
    (IsScoreCall /\ call.steady) =>
        /\ call.terms.high
             = 500 * Cardinality({i \in OpenIndices(call.person, tasks) :
                                     tasks[i].priority = "high"})
        /\ \A i \in OverdueIndices(call.person, tasks, call.now) :
              tasks[i].priority # "high" =>
                 TotalAt(call.person, [tasks EXCEPT ![i].priority = "high"], call.now)
                   = call.terms.overdue + call.terms.high + call.terms.weighted + 500

\* A person with an overdue task of priority high and an overdue task of
\* priority low: 500 for the first, and 500 more if the second becomes high.
C22_Witness ==
    /\ IsScoreCall
    /\ call.steady
    /\ call.terms.high = 500
    /\ \E i, j \in OverdueIndices(call.person, tasks, call.now) :
         /\ tasks[i].priority = "high"
         /\ tasks[j].priority = "low"
         /\ TotalAt(call.person, [tasks EXCEPT ![j].priority = "high"], call.now)
              = call.terms.overdue + call.terms.weighted + 1000

(***************************************************************************)
(* C23.  Before the factor is applied, every open task that is not overdue *)
(* adds priorityWeight * dateWeight: priorityWeight is 50, 20, 5 for high, *)
(* medium, low; dateWeight is 5 for at most 1 whole day until the task is  *)
(* due, 3 for more than 1 and at most 3, 2 for more than 3 and at most 7,  *)
(* and 1 otherwise.  An overdue task adds nothing to this term.            *)
(***************************************************************************)
WeightOfPriority(priority) ==
    IF priority = "high" THEN 50 ELSE IF priority = "medium" THEN 20 ELSE 5

WeightOfDays(days) ==
    IF days \in 0..1 THEN 5
    ELSE IF days \in 2..3 THEN 3
    ELSE IF days \in 4..7 THEN 2
    ELSE 1

Weights(T, now) ==
    [i \in DOMAIN T |->
        WeightOfPriority(T[i].priority) * WeightOfDays(WholeDays(now, T[i].due_date))]

C23_WeightedTerm ==
    (IsScoreCall /\ call.steady) =>
        call.terms.weighted =
            SumOver(OpenIndices(call.person, tasks)
                      \ OverdueIndices(call.person, tasks, call.now),
                    Weights(tasks, call.now))

\* A medium task due in exactly 3 days and a low task due in exactly 7 days:
\* 20 * 3 + 5 * 2.
C23_Witness ==
    /\ IsScoreCall
    /\ call.steady
    /\ \E i, j \in OpenIndices(call.person, tasks) :
         /\ tasks[i].priority = "medium"
         /\ tasks[i].due_date = call.now + 3 * UnitsPerDay
         /\ tasks[j].priority = "low"
         /\ tasks[j].due_date = call.now + 7 * UnitsPerDay
    /\ call.terms.weighted = 70

\* An overdue task and a high task due in 8 days: 50 * 1 for the second,
\* nothing for the first.
C23_WitnessOverdue ==
    /\ IsScoreCall
    /\ call.steady
    /\ OverdueIndices(call.person, tasks, call.now) # {}
    /\ call.terms.weighted = 50

(***************************************************************************)
(* C24.  In a call with strategy smart the score of each person is         *)
(* computed once, before the sort, and the sort compares by these values   *)
(* alone: the output is the input in descending order of the scores of the *)
(* call, persons of equal scores in input order, also when the clock       *)
(* advances during the call.                                               *)
(***************************************************************************)
C24_SortedByPrecomputedScores ==
    (IsRankCall /\ call.sortBy = "smart") =>
        /\ DOMAIN call.personScores = {p.id : p \in Range(call.persons)}
        /\ \A i, j \in DOMAIN call.ret :
              i < j =>
                 \/ call.personScores[call.ret[i].id] > call.personScores[call.ret[j].id]
                 \/ /\ call.personScores[call.ret[i].id] = call.personScores[call.ret[j].id]
                    /\ PositionOf(call.ret[i].id, call.persons)
                         < PositionOf(call.ret[j].id, call.persons)

\* A call during which the clock advanced, which has reordered the persons:
\* by the scores at the time the call began the order would be another.
C24_Witness ==
    /\ IsRankCall
    /\ call.sortBy = "smart"
    /\ ~call.steady
    /\ call.ret # call.persons
    /\ \E i, j \in DOMAIN call.ret :
         /\ i < j
         /\ call.personScores[call.ret[i].id] > call.personScores[call.ret[j].id]
         /\ ScoreAt(call.ret[i], tasks, call.now) < ScoreAt(call.ret[j], tasks, call.now)

(***************************************************************************)
(* C25.  Differences in days are truncated to whole days.  An overdue task *)
(* due less than one whole day before now adds 0 to the overdue term, so   *)
(* that overdue tasks of this kind alone make the term the flat 1000; a    *)
(* task that is not overdue and due less than two whole days after now has *)
(* the date weight 5.                                                      *)
(***************************************************************************)
DueSoonIndices(p, T, now) ==
    {i \in OpenIndices(p, T) : T[i].due_date >= now}

Occurrences(x, seq) == Cardinality({k \in DOMAIN seq : seq[k] = x})

C26_Permutation ==
    (IsRankCall /\ call.sortBy \in SortOption) =>
        /\ Len(call.ret) = Len(call.persons)
        /\ \A p \in Range(call.persons) \cup Range(call.ret) :
              Occurrences(p, call.ret) = Occurrences(p, call.persons)

\* A call on three persons that has moved every one of them.
C26_Witness ==
    /\ IsRankCall
    /\ call.sortBy \in SortOption
    /\ Len(call.persons) = 3
    /\ \A k \in 1..3 : call.ret[k] # call.persons[k]
    /\ Range(call.ret) = Range(call.persons)

(***************************************************************************)
(* C27.  For a fixed reference time the score of a person is 0 if and only *)
(* if the person has no open task: with an open task, overdue or not and   *)
(* of any priority, the score is greater than 0.                           *)
(***************************************************************************)
C27_ZeroIffNoOpenTask ==
    /\ (IsScoreCall /\ call.steady) =>
         (call.ret = 0 <=> ~HasOpenTask(call.person, tasks))
    /\ (IsRankCall /\ call.steady) =>
         \A p \in Range(call.persons) :
            call.personScores[p.id] = 0 <=> ~HasOpenTask(p, tasks)

\* The smallest score of a person with an open task: one task of priority
\* low, due in 8 days, 5 * 1 * 1.2.
C27_Witness ==
    /\ IsScoreCall
    /\ call.steady
    /\ OpenCount(call.person, tasks) = 1
    /\ \E i \in OpenIndices(call.person, tasks) :
         /\ tasks[i].priority = "low"
         /\ tasks[i].due_date = call.now + 8 * UnitsPerDay
    /\ call.ret = 600000

(***************************************************************************)
(* C28.  Under each of the strategies smart, taskCount, urgency and        *)
(* priority, for a fixed reference time, every person with an open task is *)
(* placed before every person with none.                                   *)
(***************************************************************************)
OpenTasksFirst ==
    \A i, j \in DOMAIN call.ret :
        (i < j /\ HasOpenTask(call.ret[j], tasks)) => HasOpenTask(call.ret[i], tasks)

C28_OpenTasksFirst ==
    (/\ IsRankCall
     /\ call.steady
     /\ call.sortBy \in {"smart", "taskCount", "urgency", "priority"})
    => OpenTasksFirst

\* It holds under the strategies smart and taskCount.
C28_OpenTasksFirstByScoreOrCount ==
    (IsRankCall /\ call.steady /\ call.sortBy \in {"smart", "taskCount"})
    => OpenTasksFirst

\* It holds under urgency and priority when no open task is due after the
\* sentinel date.
C28_OpenTasksFirstBeforeSentinel ==
    (/\ IsRankCall
     /\ call.steady
     /\ call.sortBy \in {"urgency", "priority"}
     /\ \A i \in DOMAIN tasks : tasks[i].due_date < FarFuture)
    => OpenTasksFirst

(***************************************************************************)
(* C29.  Under every interleaving of concurrent POST /api/tasks and POST   *)
(* /api/people requests, table persons never holds two persons of the same *)
(* email, and a handler whose insert comes after another one has put the   *)
(* email in the table answers with an error and adds no row.               *)
(***************************************************************************)
OnePersonPerEmail ==
    \A i, j \in DOMAIN dbPersons :
        dbPersons[i].email = dbPersons[j].email => i = j

\* The email a handler that is about to insert a person inserts.
EmailToInsert(h) ==
    IF h.pc = "insert" THEN h.taskData.assigned_person_emails[h.i]
    ELSE h.personData.email

LoserFails ==
    \A r \in Requests :
        (/\ handlers[r].pc \in {"insert", "insertPerson"}
         /\ handlers'[r] # handlers[r]
         /\ \E row \in Range(dbPersons) : row.email = EmailToInsert(handlers[r]))
        => /\ handlers'[r].pc = "done"
           /\ handlers'[r].res.status = 500
           /\ dbPersons' = dbPersons

C29_OnePersonPerEmail == []OnePersonPerEmail /\ [][LoserFails]_vars

\* A POST /api/people for bob that has ended in 500 on the UNIQUE
\* constraint, having written nothing: the one row of bob is the one a
\* POST /api/tasks has created.
C29_Witness ==
    \E r, q \in Requests :
        /\ Answered(r, 500)
        /\ handlers[r].route = "/api/people"
        /\ handlers[r].body.email = "bob@oei.io"
        /\ handlers[r].logged = "unique_violation"
        /\ handlers[r].writes = 0
        /\ IsTaskRequest(q)
        /\ handlers[q].writes >= 1
        /\ Cardinality({k \in DOMAIN dbPersons : dbPersons[k].email = "bob@oei.io"}) = 1
        /\ \E k \in DOMAIN dbPersons :
             dbPersons[k].email = "bob@oei.io" /\ dbPersons[k].role = "Auto-created"


(***************************************************************************)
(* The click on a status button.                                           *)
(***************************************************************************)
\* pending -> in_progress -> completed -> pending
NextOf(status) ==
    CASE status = "pending" -> "in_progress"
      [] status = "in_progress" -> "completed"
      [] status = "completed" -> "pending"

\* The clicks whose status update is in flight.
InFlight == {c \in Clicks : clicks[c].pc = "await"}

\* The steps in which the handler of click c starts and ends.
ClickStarts(c) == clicks[c].pc = "idle" /\ clicks'[c].pc # "idle"

ClickEnds(c) == clicks[c].pc = "await" /\ clicks'[c].pc = "done"

\* updatingTaskId is not null exactly while a status update is in flight, it
\* is the id of that update's task, and one update is in flight at most.
OneInFlight ==
    /\ Cardinality(InFlight) <= 1
    /\ updatingTaskId # Null <=> InFlight # {}
    /\ \A c \in InFlight : updatingTaskId = clicks[c].task.id

\* A click while updatingTaskId is not null calls nothing and changes nothing.
IgnoredWhileInFlight ==
    \A c \in Clicks :
        ClickStarts(c) /\ updatingTaskId # Null
        => /\ clicks'[c].pc = "ignored"
           /\ clicks'[c].calls = <<>>
           /\ UNCHANGED <<updatingTaskId, error, editingTask, isTaskFormOpen,
                          dbTasks, filteredTasks>>

\* Any other click first calls onEditTask with the task in its next status,
\* and its update is then in flight.
OptimisticFirst ==
    \A c \in Clicks :
        ClickStarts(c) /\ updatingTaskId = Null
        => /\ clicks'[c].pc = "await"
           /\ clicks'[c].task \in Range(filteredTasks)
           /\ clicks'[c].calls =
                <<[clicks'[c].task EXCEPT !.status = NextOf(@)]>>
           /\ editingTask' = clicks'[c].calls[1]
           /\ updatingTaskId' = clicks'[c].task.id

\* When the handler ends updatingTaskId is null; after an error or a throw
\* it has called onEditTask a second time, with the task as it was, and an
\* error message is set.
RevertOnError ==
    \A c \in Clicks :
        ClickEnds(c)
        => /\ updatingTaskId' = Null
           /\ clicks'[c].outcome \in {"error", "throw"}
              => /\ clicks'[c].calls = Append(clicks[c].calls, clicks[c].task)
                 /\ editingTask' = clicks[c].task
                 /\ error' # "null"

\* C30: in TaskList.handleStatusClick a click is ignored while another status
\* update is in flight (updatingTaskId not null); otherwise the task is first
\* passed to onEditTask with the next status (pending -> in_progress ->
\* completed -> pending), and if the backend update returns an error or
\* throws, onEditTask is called again with the original task and an error
\* message is set; in every outcome updatingTaskId is null again when the
\* handler finishes.
C30_StatusClick ==
    /\ []OneInFlight
    /\ [][IgnoredWhileInFlight /\ OptimisticFirst /\ RevertOnError]_vars

\* Three clicks: one whose update answered an error, one dropped while an
\* update was in flight, and one on a completed task whose update threw and
\* that gave the task back as it was; no update is in flight any more.
C30_Witness ==
    \E c, d, e \in Clicks :
        /\ clicks[c].pc = "done" /\ clicks[c].outcome = "error"
        /\ Len(clicks[c].calls) = 2
        /\ clicks[d].pc = "ignored"
        /\ clicks[e].pc = "done" /\ clicks[e].outcome = "throw"
        /\ clicks[e].task.status = "completed"
        /\ clicks[e].calls =
             <<[clicks[e].task EXCEPT !.status = "pending"], clicks[e].task>>
        /\ editingTask = clicks[e].task
        /\ error = "Network error. Please check your connection."
        /\ updatingTaskId = Null

====
